---- MODULE Spec2Model ----
(***************************************************************************)
(* State-machine model of the giveaway subsystem of merlin-V2              *)
(* (src/cogs/giveaway.py): the SQLite tables giveaways / giveaway_entries, *)
(* the Discord side (channels, public messages, winners announcements,     *)
(* registered views) and the asyncio tasks of one bot process: command     *)
(* handlers (start, end, join button), the restore task and the background *)
(* check loop.  Every await of the source is a step boundary; a group of   *)
(* SQL writes becomes visible to the other connections at its commit, so   *)
(* each "writes + commit" group is one step taken at the commit.           *)
(***************************************************************************)
EXTENDS Integers, Sequences, FiniteSets, TLC

\* ------------------------------------------------------------------ bounds
MaxTasks == 2
\* concurrently running command / button handlers
NumGuilds == 1
NumScopes == 2
\* guilds (scopes); each has one text channel, numbered like the guild
NumUsers == 2
\* members that can click the join button
MaxEvents == 1
\* rows the giveaways table may hold (start is not called beyond it)
MaxRows == 2
\* the same, in the specification of racing start commands
MaxNow == 60
\* the clock stops advancing here (seconds)
MaxCrashes == 1
\* process crashes followed by a restart

MaxMessages == 4
\* messages a member sends (the users table stops counting here)

Handlers == 1..MaxTasks
Guilds == 1..NumGuilds
Users == 1..NumUsers
TickSteps == {60}

\* the two long-lived tasks of the cog
Monitor == 0
Restorer == -1
Procs == {Restorer, Monitor} \cup Handlers

VARIABLES
    giveaways,       \* table giveaways: sequence of rows, id = position
    entries,         \* table giveaway_entries: sequence of rows
    users,           \* table users: user_id -> row (exists = FALSE: no row)
    guild_settings,  \* table guild_settings: guild -> manager role (0: none)
    channels,        \* channels bot.get_channel resolves
    messages,        \* public giveaway messages that exist: id -> state
    announced,       \* winners embeds sent, per giveaway id
    views,           \* views registered with the bot (in memory)
    task,            \* the asyncio tasks: kind, position and locals
    reply,           \* the interaction response sent by the last step
    now,             \* time.time()
    crashes,         \* restarts so far
    refused,         \* history: the <<giveaway, user>> joins refused at a gate
    finalized,       \* history: giveaways a finalization has completed for
    late,            \* history: <<giveaway, user>> entries inserted while
                     \* the giveaway was inactive
    loops            \* tasks running _background_check_loop in the process

vars == <<giveaways, entries, users, guild_settings, refused, loops,
          finalized, late, channels, messages, announced,
          views, task, reply, now, crashes>>

\* ----------------------------------------------------------------- helpers
Range(s) == {s[i] : i \in 1..Len(s)}

Min(a, b) == IF a <= b THEN a ELSE b

\* the elements of s at the positions S, in order
PickSeq(s, S) ==
    LET F[i \in 0..Len(s)] ==
            IF i = 0 THEN <<>>
            ELSE IF i \in S THEN Append(F[i - 1], s[i]) ELSE F[i - 1]
    IN F[Len(s)]

\* ids (positions) of the giveaways rows, in rowid order
AllIds == [i \in 1..Len(giveaways) |-> i]

IdleTask ==
    [kind |-> "idle", pc |-> "idle", guild |-> 0, chan |-> 0, user |-> 0,
     gid |-> 0, msg |-> 0, override |-> FALSE, parts |-> <<>>,
     elig |-> <<>>, rows |-> <<>>, wc |-> 0, mm |-> 0, ml |-> 0, secs |-> 0,
     winners |-> <<>>, flipped |-> FALSE]

\* --------------------------------------------------------- pure functions
Digits == {"0", "1", "2", "3", "4", "5", "6", "7", "8", "9"}

DigitVal(c) ==
    CASE c = "0" -> 0 [] c = "1" -> 1 [] c = "2" -> 2 [] c = "3" -> 3
      [] c = "4" -> 4 [] c = "5" -> 5 [] c = "6" -> 6 [] c = "7" -> 7
      [] c = "8" -> 8 [] c = "9" -> 9

\* int(text) on a string given as a sequence of characters: an optional
\* sign and at least one digit, otherwise ValueError (ok = FALSE)
ParseInt(s) ==
    LET signed == Len(s) > 0 /\ s[1] \in {"-", "+"}
        body == IF signed THEN Tail(s) ELSE s
        V[i \in 0..Len(body)] ==
            IF i = 0 THEN 0 ELSE V[i - 1] * 10 + DigitVal(body[i])
    IN IF Len(body) = 0 \/ \E i \in 1..Len(body) : body[i] \notin Digits
       THEN [ok |-> FALSE, val |-> 0]
       ELSE [ok |-> TRUE,
             val |-> IF signed /\ s[1] = "-" THEN 0 - V[Len(body)]
                     ELSE V[Len(body)]]

Lower(c) ==
    CASE c = "M" -> "m" [] c = "H" -> "h" [] c = "D" -> "d" [] OTHER -> c

\* _parse_duration: one number followed by one unit letter m, h or d;
\* ok = FALSE stands for None
ParseDuration(duration) ==
    IF Len(duration) < 2 THEN [ok |-> FALSE, val |-> 0]
    ELSE LET unit == Lower(duration[Len(duration)])
             num == ParseInt(SubSeq(duration, 1, Len(duration) - 1))
         IN IF ~num.ok THEN [ok |-> FALSE, val |-> 0]
            ELSE IF unit = "m" THEN [ok |-> TRUE, val |-> num.val * 60]
            ELSE IF unit = "h" THEN [ok |-> TRUE, val |-> num.val * 3600]
            ELSE IF unit = "d" THEN [ok |-> TRUE, val |-> num.val * 86400]
            ELSE [ok |-> FALSE, val |-> 0]

\* role names that contain "giveaway" or "manager" (case-insensitive)
RoleIds == {1, 2}
RoleNames == [r \in RoleIds |-> IF r = 1 THEN "Giveaway Host" ELSE "Member"]
KeywordNames == {"Giveaway Host"}

\* _is_manager without the fallback of lines 395-398
IsManagerNoFallback(actor, guild) ==
    \/ actor.manage_guild
    \/ /\ guild_settings[guild] # 0
       /\ guild_settings[guild] \in actor.roles

\* _is_manager: manage_guild, or the guild's configured manager role, or a
\* role whose name contains a keyword
IsManager(actor, guild) ==
    \/ actor.manage_guild
    \/ /\ guild_settings[guild] # 0
       /\ guild_settings[guild] \in actor.roles
    \/ \E r \in actor.roles : RoleNames[r] \in KeywordNames

\* ------------------------------------------------------------ the tables
\* SELECT ... FROM giveaways WHERE id=? (a missing row reads as no row)
HasRow(gid) == gid \in 1..Len(giveaways)

IsActive(gid) == HasRow(gid) /\ giveaways[gid].active = 1

\* SELECT id FROM giveaways WHERE guild_id=? AND active=1, in rowid order
ActiveIn(guild) ==
    SelectSeq(AllIds, LAMBDA i : giveaways[i].guild_id = guild
                                 /\ giveaways[i].active = 1)

\* SELECT ... FROM giveaways WHERE active=1
ActiveRows == SelectSeq(AllIds, LAMBDA i : giveaways[i].active = 1)

\* UPDATE giveaways SET active=0 WHERE id=?
SetInactive(tbl, gid) ==
    [i \in 1..Len(tbl) |->
        IF i = gid THEN [tbl[i] EXCEPT !.active = 0] ELSE tbl[i]]

\* UPDATE giveaways SET message_id=? WHERE id=?
SetMessageId(tbl, gid, mid) ==
    [i \in 1..Len(tbl) |->
        IF i = gid THEN [tbl[i] EXCEPT !.message_id = mid] ELSE tbl[i]]

\* SELECT user_id FROM giveaway_entries WHERE giveaway_id=?
EntryUsers(gid) ==
    LET rows == SelectSeq(entries, LAMBDA r : r.giveaway_id = gid)
    IN [i \in 1..Len(rows) |-> rows[i].user_id]

\* the won flag not looked at: every entry is a candidate
AnyUsers(gid) == EntryUsers(gid)

\* SELECT user_id FROM giveaway_entries WHERE giveaway_id=? AND won=0
FreshUsers(gid) ==
    LET rows == SelectSeq(entries,
                          LAMBDA r : r.giveaway_id = gid /\ r.won = 0)
    IN [i \in 1..Len(rows) |-> rows[i].user_id]

HasEntry(tbl, gid, uid) ==
    \E i \in 1..Len(tbl) : tbl[i].giveaway_id = gid /\ tbl[i].user_id = uid

\* a new row (won = 0) put into the table, which is listed by key: SQLite's
\* physical row order carries no meaning for any query of the cog
InsertRow(tbl, gid, uid) ==
    LET before == SelectSeq(tbl, LAMBDA r :
                      r.giveaway_id < gid
                      \/ (r.giveaway_id = gid /\ r.user_id <= uid))
        after == SelectSeq(tbl, LAMBDA r :
                      r.giveaway_id > gid
                      \/ (r.giveaway_id = gid /\ r.user_id > uid))
    IN before \o <<[giveaway_id |-> gid, user_id |-> uid, won |-> 0]>> \o after

\* a plain INSERT into a table without the UNIQUE constraint
InsertAlways(tbl, gid, uid) == InsertRow(tbl, gid, uid)

\* INSERT OR IGNORE INTO giveaway_entries ... under UNIQUE(giveaway_id, user_id)
InsertOrIgnore(tbl, gid, uid) ==
    IF HasEntry(tbl, gid, uid) THEN tbl ELSE InsertRow(tbl, gid, uid)

\* UPDATE giveaway_entries SET won=1 WHERE giveaway_id=? AND user_id=?, per winner
MarkWon(tbl, gid, winners) ==
    [i \in 1..Len(tbl) |->
        IF tbl[i].giveaway_id = gid /\ tbl[i].user_id \in Range(winners)
        THEN [tbl[i] EXCEPT !.won = 1] ELSE tbl[i]]

\* DELETE FROM giveaway_entries WHERE giveaway_id=?
DeleteEntries(tbl, gid) == SelectSeq(tbl, LAMBDA r : r.giveaway_id # gid)

\* a draw that takes every candidate, whatever the number asked for
SamplesAll(eligible, k) == {eligible}

\* random.sample(eligible, k): the k-element selections (ValueError, the
\* empty set of outcomes here, when k is negative)
Samples(eligible, k) ==
    {PickSeq(eligible, S) :
        S \in {T \in SUBSET (1..Len(eligible)) : Cardinality(T) = k}}

\* channel.fetch_message(message_id): the message, or 0 when it raises
FetchMessage(chan, mid) ==
    IF chan \in channels /\ mid # 0 /\ mid \in DOMAIN messages THEN mid ELSE 0



\* ------------------------------------------------------------------ inputs
\* interaction.user as _is_manager sees it
Actors ==
    {[manage_guild |-> TRUE, roles |-> {}],
     [manage_guild |-> FALSE, roles |-> {2}]}

\* every combination of the permission and the roles a member can have
AllActors == [manage_guild : BOOLEAN, roles : SUBSET RoleIds]

\* duration strings: "1m" and "1h1m"; with a sign: "-1m"
Durations == {<<"1", "m">>, <<"1", "h", "1", "m">>}
SignedDurations == Durations \cup {<<"-", "1", "m">>}
WinnerCounts == {1}
SignedWinnerCounts == {1, -1}
MinMessages == {0}
MinLevels == {0}

\* thresholds a giveaway can ask for
GateMessages == {0, 2}
GateLevels == {0, 3}

\* winners options that ask for one or for several winners
DrawCounts == {1, 2}

\* ids a manager may pass to /giveaway_reroll
GiveawayIds == 1..MaxRows

\* ------------------------------------------------------------------- state
RestoreTask == [IdleTask EXCEPT !.kind = "restore", !.pc = "r_schema"]

\* GiveawayCog.__init__: only the restore task exists
FreshTasks == [p \in Procs |-> IF p = Restorer THEN RestoreTask ELSE IdleTask]

NoReply == [kind |-> "", res |-> "", gid |-> 0, user |-> 0]

Init ==
    /\ giveaways = <<>>
    /\ entries = <<>>
    /\ users = [u \in Users |-> [exists |-> TRUE, messages |-> 10, level |-> 3]]
    /\ guild_settings = [g \in Guilds |-> 0]
    /\ channels = Guilds
    /\ messages = <<>>
    /\ announced = [g \in 1..MaxRows |-> 0]
    /\ views = {}
    /\ task = FreshTasks
    /\ reply = NoReply
    /\ now = 0
    /\ crashes = 0
    /\ refused = {}
    /\ finalized = {}
    /\ late = {}
    /\ loops = 0

\* task p goes on as r; nothing is sent to a user
Step(p, r) ==
    /\ task' = [task EXCEPT ![p] = r]
    /\ reply' = NoReply

\* interaction.response.send_message: handler r answers res and is over
Finish(p, r, res) ==
    /\ task' = [task EXCEPT ![p] = IdleTask]
    /\ reply' = [kind |-> r.kind, res |-> res, gid |-> r.gid, user |-> r.user]

\* an interaction is dispatched to a new handler task (the slots are
\* interchangeable: the lowest free one is taken)
Free(t) ==
    /\ task[t].kind = "idle"
    /\ \A s \in Handlers : s < t => task[s].kind # "idle"

\* start handlers that will still insert a row
PendingInserts ==
    Cardinality({t \in Handlers : task[t].kind = "start"
                                  /\ task[t].pc \in {"s_check", "s_insert"}})

\* ------------------------------------------------------------ giveaway_start
\* lines 472-483: permission gate, then the duration is parsed
StartCall(t, cap, guild, actor, duration, winners, min_messages, min_level) ==
    /\ Free(t)
    /\ guild \in channels
    /\ Len(giveaways) + PendingInserts < cap
    /\ LET seconds == ParseDuration(duration)
           r == [IdleTask EXCEPT !.kind = "start", !.guild = guild,
                                 !.chan = guild]
       IN IF ~IsManager(actor, guild) THEN Finish(t, r, "Unauthorized")
          ELSE IF ~seconds.ok THEN Finish(t, r, "InvalidDuration")
          ELSE Step(t, [r EXCEPT !.pc = "s_check", !.secs = seconds.val,
                                 !.wc = winners, !.mm = min_messages,
                                 !.ml = min_level])
    /\ UNCHANGED <<giveaways, entries, users, guild_settings, refused, loops,
                   finalized, late, channels, messages, announced,
                   views, now, crashes>>

\* giveaway_start without lines 485-491
StartUnchecked(t) ==
    /\ task[t].kind = "start" /\ task[t].pc = "s_check"
    /\ Step(t, [task[t] EXCEPT !.pc = "s_insert"])
    /\ UNCHANGED <<giveaways, entries, users, guild_settings, refused, loops,
                   finalized, late, channels, messages, announced,
                   views, now, crashes>>

\* lines 485-491: only one active giveaway per guild
StartCheck(t) ==
    /\ task[t].kind = "start" /\ task[t].pc = "s_check"
    /\ IF ActiveIn(task[t].guild) # <<>>
       THEN Finish(t, task[t], "AlreadyActive")
       ELSE Step(t, [task[t] EXCEPT !.pc = "s_insert"])
    /\ UNCHANGED <<giveaways, entries, users, guild_settings, refused, loops,
                   finalized, late, channels, messages, announced,
                   views, now, crashes>>

\* _create_giveaway, lines 357-371: INSERT and commit
StartInsert(t) ==
    /\ task[t].kind = "start" /\ task[t].pc = "s_insert"
    /\ giveaways' = Append(giveaways,
           [guild_id |-> task[t].guild, channel_id |-> task[t].chan,
            message_id |-> 0, winner_count |-> task[t].wc,
            min_messages |-> task[t].mm, min_level |-> task[t].ml,
            start_time |-> now, end_time |-> now + task[t].secs,
            active |-> 1])
    /\ Step(t, [task[t] EXCEPT !.pc = "s_send", !.gid = Len(giveaways) + 1,
                               !.secs = 0, !.wc = 0])
    /\ UNCHANGED <<entries, users, guild_settings, refused, loops,
                   finalized, late, channels, messages,
                   announced, views, now, crashes>>

\* lines 514-520: the public message with the join button
StartSend(t) ==
    /\ task[t].kind = "start" /\ task[t].pc = "s_send"
    /\ IF task[t].chan \in channels
       THEN /\ messages' = (task[t].gid :> "open") @@ messages
            /\ Step(t, [task[t] EXCEPT !.pc = "s_store", !.msg = task[t].gid])
       ELSE /\ Finish(t, task[t], "PostFailed")
            /\ UNCHANGED messages
    /\ UNCHANGED <<giveaways, entries, users, guild_settings, refused, loops,
                   finalized, late, channels,
                   announced, views, now, crashes>>

\* lines 522-538: message_id is stored, the view registered, the caller told
StartStore(t) ==
    /\ task[t].kind = "start" /\ task[t].pc = "s_store"
    /\ giveaways' = SetMessageId(giveaways, task[t].gid, task[t].msg)
    /\ views' = views \cup {[gid |-> task[t].gid, msg |-> task[t].msg,
                             mm |-> task[t].mm, ml |-> task[t].ml]}
    /\ Finish(t, task[t], "Started")
    /\ UNCHANGED <<entries, users, guild_settings, refused, loops,
                   finalized, late, channels, messages,
                   announced, now, crashes>>

\* lines 530-535 when add_view with message_id raises: the view is added
\* without a message.  Every view has the one custom_id of line 38, so it
\* takes the place of the view added without a message before it.
StartStoreUnbound(t) ==
    /\ task[t].kind = "start" /\ task[t].pc = "s_store"
    /\ giveaways' = SetMessageId(giveaways, task[t].gid, task[t].msg)
    /\ views' = {v \in views : v.msg # 0}
                 \cup {[gid |-> task[t].gid, msg |-> 0,
                        mm |-> task[t].mm, ml |-> task[t].ml]}
    /\ Finish(t, task[t], "Started")
    /\ UNCHANGED <<entries, users, guild_settings, refused, loops,
                   finalized, late, channels, messages,
                   announced, now, crashes>>

\* --------------------------------------------------------------- join_button
\* a click on a message that still shows the button of a registered view
JoinCall(t, v, user) ==
    /\ Free(t)
    /\ v \in views
    /\ v.msg \in DOMAIN messages /\ messages[v.msg] = "open"
    /\ Step(t, [IdleTask EXCEPT !.kind = "join", !.pc = "j_active",
                                !.gid = v.gid, !.user = user,
                                !.msg = v.msg,
                                !.mm = v.mm, !.ml = v.ml])
    /\ UNCHANGED <<giveaways, entries, users, guild_settings, refused, loops,
                   finalized, late, channels, messages, announced,
                   views, now, crashes>>

\* a click on a message that shows the button and has no view of its own:
\* the interaction goes to the view added without a message, if there is one
JoinCallUnbound(t, m, user) ==
    /\ Free(t)
    /\ m \in DOMAIN messages /\ messages[m] = "open"
    /\ \A v \in views : v.msg # m
    /\ \E v \in views :
          /\ v.msg = 0
          /\ Step(t, [IdleTask EXCEPT !.kind = "join", !.pc = "j_active",
                                      !.gid = v.gid, !.user = user,
                                      !.msg = m,
                                      !.mm = v.mm, !.ml = v.ml])
    /\ UNCHANGED <<giveaways, entries, users, guild_settings, refused, loops,
                   finalized, late, channels, messages, announced,
                   views, now, crashes>>

\* lines 46-51 with "if not row" alone, the active flag not looked at
JoinExists(t) ==
    /\ task[t].kind = "join" /\ task[t].pc = "j_active"
    /\ IF ~HasRow(task[t].gid) THEN Finish(t, task[t], "Inactive")
       ELSE Step(t, [task[t] EXCEPT !.pc = "j_stats"])
    /\ UNCHANGED <<giveaways, entries, users, guild_settings, refused, loops,
                   finalized, late, channels, messages, announced,
                   views, now, crashes>>

\* lines 46-51: the giveaway must exist and be active
JoinActive(t) ==
    /\ task[t].kind = "join" /\ task[t].pc = "j_active"
    /\ IF ~IsActive(task[t].gid) THEN Finish(t, task[t], "Inactive")
       ELSE Step(t, [task[t] EXCEPT !.pc = "j_stats"])
    /\ UNCHANGED <<giveaways, entries, users, guild_settings, refused, loops,
                   finalized, late, channels, messages, announced,
                   views, now, crashes>>

\* lines 53-70 alone: the level gate of lines 71-77 left out
JoinStatsNoLevel(t) ==
    /\ task[t].kind = "join" /\ task[t].pc = "j_stats"
    /\ LET urow == users[task[t].user]
           gate == IF ~urow.exists THEN "NoStats"
                   ELSE IF urow.messages < task[t].mm THEN "NeedMessages"
                   ELSE ""
       IN IF gate # ""
          THEN /\ Finish(t, task[t], gate)
               /\ refused' = refused \cup {<<task[t].gid, task[t].user>>}
          ELSE /\ Step(t, [task[t] EXCEPT !.pc = "j_insert"])
               /\ UNCHANGED refused
    /\ UNCHANGED <<giveaways, entries, users, guild_settings, finalized,
                   late, loops, channels, messages, announced, views, now,
                   crashes>>

\* the gates with a remembered refusal: once refused, loops, refused again
JoinStatsCached(t) ==
    /\ task[t].kind = "join" /\ task[t].pc = "j_stats"
    /\ LET urow == users[task[t].user]
           gate == IF ~urow.exists THEN "NoStats"
                   ELSE IF urow.messages < task[t].mm THEN "NeedMessages"
                   ELSE IF urow.level < task[t].ml THEN "NeedLevel"
                   ELSE IF <<task[t].gid, task[t].user>> \in refused
                   THEN "NeedMessages"
                   ELSE ""
       IN IF gate # ""
          THEN /\ Finish(t, task[t], gate)
               /\ refused' = refused \cup {<<task[t].gid, task[t].user>>}
          ELSE /\ Step(t, [task[t] EXCEPT !.pc = "j_insert"])
               /\ UNCHANGED refused
    /\ UNCHANGED <<giveaways, entries, users, guild_settings, finalized,
                   late, loops, channels, messages, announced, views, now,
                   crashes>>

\* lines 53-77: the requirement gates, from the users table
JoinStats(t) ==
    /\ task[t].kind = "join" /\ task[t].pc = "j_stats"
    /\ LET urow == users[task[t].user]
           gate == IF ~urow.exists THEN "NoStats"
                   ELSE IF urow.messages < task[t].mm THEN "NeedMessages"
                   ELSE IF urow.level < task[t].ml THEN "NeedLevel"
                   ELSE ""
       IN IF gate # ""
          THEN /\ Finish(t, task[t], gate)
               /\ refused' = refused \cup {<<task[t].gid, task[t].user>>}
          ELSE /\ Step(t, [task[t] EXCEPT !.pc = "j_insert"])
               /\ UNCHANGED refused
    /\ UNCHANGED <<giveaways, entries, users, guild_settings, finalized,
                   late, loops, channels, messages, announced, views, now,
                   crashes>>

\* lines 79-87: INSERT OR IGNORE, commit, and the same answer either way
JoinInsert(t) ==
    /\ task[t].kind = "join" /\ task[t].pc = "j_insert"
    /\ entries' = InsertOrIgnore(entries, task[t].gid, task[t].user)
    /\ late' = IF entries' # entries /\ ~IsActive(task[t].gid)
               THEN late \cup {<<task[t].gid, task[t].user>>} ELSE late
    /\ Finish(t, task[t], "Joined")
    /\ UNCHANGED <<giveaways, users, guild_settings, refused, loops,
                   finalized, channels, messages,
                   announced, views, now, crashes>>

\* ------------------------------------------------------- _finalize_giveaway
Finalizers == {Monitor} \cup Handlers

InFinalize(p, pc) == task[p].kind \in {"end", "monitor"} /\ task[p].pc = pc

\* _finalize_giveaway returns to its caller: giveaway_end answers
\* "Giveaway ended." (line 564), the loop goes to its next due row or sleeps
Return(p) ==
    IF task[p].kind = "end" THEN Finish(p, task[p], "Ended")
    ELSE Step(p, [IdleTask EXCEPT !.kind = "monitor", !.rows = task[p].rows,
                     !.pc = IF task[p].rows = <<>> THEN "m_poll" ELSE "m_fetch"])

\* lines 278-280 and 298: the branch taken on the participant list
Branch(r) ==
    IF r.parts = <<>>
    THEN [r EXCEPT !.pc = IF r.msg # 0 THEN "f_empty_edit" ELSE "f_empty_commit",
                   !.wc = 0]
    ELSE [r EXCEPT !.pc = "f_elig", !.parts = <<>>]

\* lines 265-268: a missing message is looked up when the channel resolves
AfterParts(r) ==
    IF r.msg = 0 /\ r.chan \in channels THEN [r EXCEPT !.pc = "f_msg"]
    ELSE Branch(r)

\* lines 246-256: the row is read, only if still active
FinRead(p) ==
    /\ InFinalize(p, "f_read")
    /\ LET gid == task[p].gid
       IN IF ~IsActive(gid) THEN Return(p)
          ELSE LET r == [task[p] EXCEPT !.chan = giveaways[gid].channel_id,
                                        !.wc = giveaways[gid].winner_count,
                                        !.override = FALSE]
               IN Step(p, IF task[p].override THEN AfterParts(r)
                          ELSE [r EXCEPT !.pc = "f_parts"])
    /\ UNCHANGED <<giveaways, entries, users, guild_settings, refused, loops,
                   finalized, late, channels, messages, announced,
                   views, now, crashes>>

\* lines 258-261: the participants are read
FinParts(p) ==
    /\ InFinalize(p, "f_parts")
    /\ Step(p, AfterParts([task[p] EXCEPT !.parts = EntryUsers(task[p].gid)]))
    /\ UNCHANGED <<giveaways, entries, users, guild_settings, refused, loops,
                   finalized, late, channels, messages, announced,
                   views, now, crashes>>

\* lines 269-276: the stored message_id is read and the message fetched
FinMessage(p) ==
    /\ InFinalize(p, "f_msg")
    /\ Step(p, Branch([task[p] EXCEPT !.msg =
           FetchMessage(task[p].chan, giveaways[task[p].gid].message_id)]))
    /\ UNCHANGED <<giveaways, entries, users, guild_settings, refused, loops,
                   finalized, late, channels, messages, announced,
                   views, now, crashes>>

\* lines 280-290: the post is edited to "No participants joined."
FinEmptyEdit(p) ==
    /\ InFinalize(p, "f_empty_edit")
    /\ messages' = IF task[p].msg \in DOMAIN messages
                   THEN [messages EXCEPT ![task[p].msg] = "empty"]
                   ELSE messages
    /\ Step(p, [task[p] EXCEPT !.pc = "f_empty_commit", !.msg = 0])
    /\ UNCHANGED <<giveaways, entries, users, guild_settings, refused, loops,
                   finalized, late, channels,
                   announced, views, now, crashes>>

\* lines 291-296 without the UPDATE of line 292
FinEmptyPurgeOnly(p) ==
    /\ InFinalize(p, "f_empty_commit")
    /\ entries' = DeleteEntries(entries, task[p].gid)
    /\ finalized' = finalized \cup {task[p].gid}
    /\ Return(p)
    /\ UNCHANGED <<giveaways, users, guild_settings, refused, loops, late,
                   channels,
                   messages, announced, views, now, crashes>>

\* lines 291-296: inactive, entries deleted, commit
FinEmptyCommit(p) ==
    /\ InFinalize(p, "f_empty_commit")
    /\ giveaways' = SetInactive(giveaways, task[p].gid)
    /\ entries' = DeleteEntries(entries, task[p].gid)
    /\ finalized' = finalized \cup {task[p].gid}
    /\ Return(p)
    /\ UNCHANGED <<users, guild_settings, refused, loops,
                   late, channels, messages, announced,
                   views, now, crashes>>

\* lines 300-302: the entries that have not won yet
FinEligible(p) ==
    /\ InFinalize(p, "f_elig")
    /\ LET eligible == FreshUsers(task[p].gid)
       IN Step(p, [task[p] EXCEPT !.elig = eligible,
                      !.pc = IF eligible = <<>> THEN "f_all" ELSE "f_commit"])
    /\ UNCHANGED <<giveaways, entries, users, guild_settings, refused, loops,
                   finalized, late, channels, messages, announced,
                   views, now, crashes>>

\* lines 303-307: none left, so all entries
FinAll(p) ==
    /\ InFinalize(p, "f_all")
    /\ Step(p, [task[p] EXCEPT !.elig = EntryUsers(task[p].gid),
                               !.pc = "f_commit"])
    /\ UNCHANGED <<giveaways, entries, users, guild_settings, refused, loops,
                   finalized, late, channels, messages, announced,
                   views, now, crashes>>

\* lines 309-318 without the UPDATE of line 317: the winners are marked
\* and committed while the giveaway stays active
FinCommitKeepsActive(p) ==
    /\ InFinalize(p, "f_commit")
    /\ \E winners \in Samples(task[p].elig,
                               Min(task[p].wc, Len(task[p].elig))) :
          /\ entries' = MarkWon(entries, task[p].gid, winners)
          /\ Step(p, [task[p] EXCEPT
                 !.winners = winners, !.flipped = TRUE,
                 !.elig = <<>>, !.wc = 0,
                 !.pc = IF task[p].msg # 0 THEN "f_edit" ELSE "f_announce"])
    /\ UNCHANGED <<giveaways, users, guild_settings, refused, loops,
                   finalized, late, channels, messages, announced, views,
                   now, crashes>>

\* the draw of lines 309-318 from the entries stored at the time of the
\* commit instead of the list read at lines 300-307
FinCommitRereads(p) ==
    /\ InFinalize(p, "f_commit")
    /\ LET stored == EntryUsers(task[p].gid)
       IN \E winners \in Samples(stored, Min(task[p].wc, Len(stored))) :
             /\ entries' = MarkWon(entries, task[p].gid, winners)
             /\ giveaways' = SetInactive(giveaways, task[p].gid)
             /\ Step(p, [task[p] EXCEPT
                    !.winners = winners, !.flipped = TRUE,
                    !.elig = <<>>, !.wc = 0,
                    !.pc = IF task[p].msg # 0 THEN "f_edit"
                           ELSE "f_announce"])
    /\ UNCHANGED <<users, guild_settings, refused, loops, finalized, late,
                   channels,
                   messages, announced, views, now, crashes>>

\* lines 309-318: winners sampled and marked, the giveaway set inactive, one
\* commit.  A negative sample size raises ValueError, which line 351 logs.
FinCommit(p) ==
    /\ InFinalize(p, "f_commit")
    /\ LET winners_count == Min(task[p].wc, Len(task[p].elig))
       IN IF winners_count < 0
          THEN /\ Return(p)
               /\ UNCHANGED <<giveaways, entries>>
          ELSE \E winners \in Samples(task[p].elig, winners_count) :
                 /\ entries' = MarkWon(entries, task[p].gid, winners)
                 /\ giveaways' = SetInactive(giveaways, task[p].gid)
                 /\ Step(p, [task[p] EXCEPT
                        !.winners = winners, !.flipped = TRUE,
                        !.elig = <<>>, !.wc = 0,
                        !.pc = IF task[p].msg # 0 THEN "f_edit"
                               ELSE "f_announce"])
    /\ UNCHANGED <<users, guild_settings, refused, loops,
                   finalized, late, channels, messages, announced,
                   views, now, crashes>>

\* lines 320-332: the post is edited to ENDED, the button removed
FinEdit(p) ==
    /\ InFinalize(p, "f_edit")
    /\ messages' = IF task[p].msg \in DOMAIN messages
                   THEN [messages EXCEPT ![task[p].msg] = "ended"]
                   ELSE messages
    /\ Step(p, [task[p] EXCEPT !.pc = "f_announce", !.msg = 0])
    /\ UNCHANGED <<giveaways, entries, users, guild_settings, refused, loops,
                   finalized, late, channels,
                   announced, views, now, crashes>>

\* lines 334-344: the winners embed, when the channel resolves
FinAnnounce(p) ==
    /\ InFinalize(p, "f_announce")
    /\ announced' = IF task[p].chan \in channels
                    THEN [announced EXCEPT ![task[p].gid] = @ + 1]
                    ELSE announced
    /\ Step(p, [task[p] EXCEPT !.pc = "f_purge", !.winners = <<>>,
                               !.chan = 0])
    /\ UNCHANGED <<giveaways, entries, users, guild_settings, refused, loops,
                   finalized, late, channels, messages, views, now, crashes>>

\* lines 346-349: the entries are deleted, commit
FinPurge(p) ==
    /\ InFinalize(p, "f_purge")
    /\ entries' = DeleteEntries(entries, task[p].gid)
    /\ finalized' = finalized \cup {task[p].gid}
    /\ Return(p)
    /\ UNCHANGED <<giveaways, users, guild_settings, refused, loops,
                   late, channels, messages,
                   announced, views, now, crashes>>

\* the steps of _finalize_giveaway that run SQL before the flip is committed
PreFlip ==
    {"f_read", "f_parts", "f_msg", "f_elig", "f_all", "f_commit",
     "f_empty_commit"}

\* a statement or the commit raises (sqlite3.OperationalError, say) before
\* the flip: the connection is closed without a commit, line 351 logs the
\* exception and _finalize_giveaway returns
FinStoreFails(p) ==
    /\ task[p].kind \in {"end", "monitor"} /\ task[p].pc \in PreFlip
    /\ Return(p)
    /\ UNCHANGED <<giveaways, entries, users, guild_settings, refused, loops,
                   finalized, late,
                   channels, messages, announced, views, now, crashes>>

\* lines 341-344: the channel resolves but ch.send raises (discord.Forbidden,
\* HTTPException); nothing catches it before line 351, so lines 346-349 are
\* not run
FinSendFails(p) ==
    /\ InFinalize(p, "f_announce")
    /\ task[p].chan \in channels
    /\ Return(p)
    /\ UNCHANGED <<giveaways, entries, users, guild_settings, refused, loops,
                   finalized, late,
                   channels, messages, announced, views, now, crashes>>

\* ------------------------------------------------------ giveaway_set_manager
\* lines 405-420: a member with manage_guild (the owner has it) stores the
\* manager role of the guild, INSERT OR REPLACE and commit
SetManager(t, guild, actor, role) ==
    /\ Free(t)
    /\ LET r == [IdleTask EXCEPT !.kind = "set_manager", !.guild = guild]
       IN IF ~actor.manage_guild
          THEN /\ Finish(t, r, "Unauthorized")
               /\ UNCHANGED guild_settings
          ELSE /\ guild_settings' = [guild_settings EXCEPT ![guild] = role]
               /\ Finish(t, r, "ManagerSet")
    /\ UNCHANGED <<giveaways, entries, users, refused, loops, finalized, late,
                   channels, messages, announced, views, now, crashes>>

\* -------------------------------------------------------------- giveaway_end
\* giveaway_end without the permission check of lines 542-545
EndCallOpen(t, guild, actor) ==
    /\ Free(t)
    /\ guild \in channels
    /\ Step(t, [IdleTask EXCEPT !.kind = "end", !.guild = guild,
                                !.pc = "e_find"])
    /\ UNCHANGED <<giveaways, entries, users, guild_settings, refused, loops,
                   finalized, late, channels, messages, announced,
                   views, now, crashes>>

\* lines 541-545
EndCall(t, guild, actor) ==
    /\ Free(t)
    /\ guild \in channels
    /\ LET r == [IdleTask EXCEPT !.kind = "end", !.guild = guild]
       IN IF ~IsManager(actor, guild) THEN Finish(t, r, "Unauthorized")
          ELSE Step(t, [r EXCEPT !.pc = "e_find"])
    /\ UNCHANGED <<giveaways, entries, users, guild_settings, refused, loops,
                   finalized, late, channels, messages, announced,
                   views, now, crashes>>

\* lines 547-557: the guild's active giveaway (the first such row)
EndFind(t) ==
    /\ task[t].kind = "end" /\ task[t].pc = "e_find"
    /\ LET found == ActiveIn(task[t].guild)
       IN IF found = <<>> THEN Finish(t, task[t], "NoActive")
          ELSE LET row == giveaways[found[1]]
                   r == [task[t] EXCEPT !.gid = found[1],
                                        !.chan = row.channel_id,
                                        !.msg = row.message_id]
               IN Step(t, IF row.channel_id \in channels
                          THEN [r EXCEPT !.pc = "e_fetch"]
                          ELSE [r EXCEPT !.msg = 0, !.pc = "f_read"])
    /\ UNCHANGED <<giveaways, entries, users, guild_settings, refused, loops,
                   finalized, late, channels, messages, announced,
                   views, now, crashes>>

\* lines 558-563: the message is fetched and the finalizer entered
EndFetch(t) ==
    /\ task[t].kind = "end" /\ task[t].pc = "e_fetch"
    /\ Step(t, [task[t] EXCEPT !.msg = FetchMessage(task[t].chan, task[t].msg),
                               !.pc = "f_read"])
    /\ UNCHANGED <<giveaways, entries, users, guild_settings, refused, loops,
                   finalized, late, channels, messages, announced,
                   views, now, crashes>>

\* ----------------------------------------------------------- giveaway_reroll
\* lines 569-573
RerollCall(t, gid, guild, actor) ==
    /\ Free(t)
    /\ LET r == [IdleTask EXCEPT !.kind = "reroll", !.guild = guild,
                                 !.gid = gid]
       IN IF ~IsManager(actor, guild) THEN Finish(t, r, "Unauthorized")
          ELSE Step(t, [r EXCEPT !.pc = "rr_find"])
    /\ UNCHANGED <<giveaways, entries, users, guild_settings, refused, loops,
                   finalized, late, channels, messages, announced,
                   views, now, crashes>>

\* lines 575-581 with "AND active=0" left out of the SELECT
RerollFindAny(t) ==
    /\ task[t].kind = "reroll" /\ task[t].pc = "rr_find"
    /\ LET gid == task[t].gid
       IN IF ~HasRow(gid)
          THEN Finish(t, task[t], "NotEnded")
          ELSE Step(t, [task[t] EXCEPT !.chan = giveaways[gid].channel_id,
                                       !.wc = giveaways[gid].winner_count,
                                       !.pc = "rr_parts"])
    /\ UNCHANGED <<giveaways, entries, users, guild_settings, refused, loops,
                   finalized, late, channels, messages, announced,
                   views, now, crashes>>

\* lines 575-581: the giveaway must exist and be inactive
RerollFind(t) ==
    /\ task[t].kind = "reroll" /\ task[t].pc = "rr_find"
    /\ LET gid == task[t].gid
       IN IF ~HasRow(gid) \/ giveaways[gid].active # 0
          THEN Finish(t, task[t], "NotEnded")
          ELSE Step(t, [task[t] EXCEPT !.chan = giveaways[gid].channel_id,
                                       !.wc = giveaways[gid].winner_count,
                                       !.pc = "rr_parts"])
    /\ UNCHANGED <<giveaways, entries, users, guild_settings, refused, loops,
                   finalized, late, channels, messages, announced,
                   views, now, crashes>>

\* lines 587-594: the entries still stored; none, and the reroll is refused
RerollParts(t) ==
    /\ task[t].kind = "reroll" /\ task[t].pc = "rr_parts"
    /\ IF EntryUsers(task[t].gid) = <<>>
       THEN Finish(t, task[t], "NoParticipants")
       ELSE Step(t, [task[t] EXCEPT !.pc = "rr_elig"])
    /\ UNCHANGED <<giveaways, entries, users, guild_settings, refused, loops,
                   finalized, late, channels, messages, announced,
                   views, now, crashes>>

\* lines 599-601: the entries that have not won yet
RerollEligible(t) ==
    /\ task[t].kind = "reroll" /\ task[t].pc = "rr_elig"
    /\ LET eligible == FreshUsers(task[t].gid)
       IN Step(t, [task[t] EXCEPT !.elig = eligible,
                      !.pc = IF eligible = <<>> THEN "rr_all" ELSE "rr_commit"])
    /\ UNCHANGED <<giveaways, entries, users, guild_settings, refused, loops,
                   finalized, late, channels, messages, announced,
                   views, now, crashes>>

\* lines 602-604: none left, so all entries
RerollAll(t) ==
    /\ task[t].kind = "reroll" /\ task[t].pc = "rr_all"
    /\ Step(t, [task[t] EXCEPT !.elig = EntryUsers(task[t].gid),
                               !.pc = "rr_commit"])
    /\ UNCHANGED <<giveaways, entries, users, guild_settings, refused, loops,
                   finalized, late, channels, messages, announced,
                   views, now, crashes>>

\* the reroll commit with the giveaway set active again
RerollReopens(t) ==
    /\ task[t].kind = "reroll" /\ task[t].pc = "rr_commit"
    /\ \E winners \in Samples(task[t].elig,
                               Min(task[t].wc, Len(task[t].elig))) :
          /\ entries' = MarkWon(entries, task[t].gid, winners)
          /\ giveaways' = [giveaways EXCEPT ![task[t].gid].active = 1]
          /\ Step(t, [task[t] EXCEPT !.winners = winners, !.elig = <<>>,
                                     !.wc = 0, !.pc = "rr_announce"])
    /\ UNCHANGED <<users, guild_settings, refused, loops,
                   finalized, late, channels, messages,
                   announced, views, now, crashes>>

\* lines 606-614: winners sampled and marked, commit.  A negative sample
\* size raises ValueError: "Failed to reroll due to DB error."
RerollCommit(t) ==
    /\ task[t].kind = "reroll" /\ task[t].pc = "rr_commit"
    /\ LET winners_count == Min(task[t].wc, Len(task[t].elig))
       IN IF winners_count < 0
          THEN /\ Finish(t, task[t], "DbError")
               /\ UNCHANGED entries
          ELSE \E winners \in Samples(task[t].elig, winners_count) :
                 /\ entries' = MarkWon(entries, task[t].gid, winners)
                 /\ Step(t, [task[t] EXCEPT !.winners = winners,
                                !.elig = <<>>, !.wc = 0,
                                !.pc = "rr_announce"])
    /\ UNCHANGED <<giveaways, users, guild_settings, refused, loops,
                   finalized, late, channels, messages, announced,
                   views, now, crashes>>

\* lines 616-626: the reroll embed in the original channel, and the answer
RerollAnnounce(t) ==
    /\ task[t].kind = "reroll" /\ task[t].pc = "rr_announce"
    /\ Finish(t, task[t], IF task[t].chan \in channels THEN "Rerolled"
                          ELSE "RerolledNoChannel")
    /\ UNCHANGED <<giveaways, entries, users, guild_settings, refused, loops,
                   finalized, late, channels, messages, announced,
                   views, now, crashes>>

\* --------------------------------------------------- _background_check_loop
\* the loop body without the test of line 210: every active row is handled
MonPollAll ==
    /\ task[Monitor].kind = "monitor" /\ task[Monitor].pc = "m_poll"
    /\ LET due == ActiveRows
           rows == [k \in 1..Len(due) |->
                       [id |-> due[k],
                        channel_id |-> giveaways[due[k]].channel_id,
                        message_id |-> giveaways[due[k]].message_id]]
       IN Step(Monitor, [task[Monitor] EXCEPT !.rows = rows,
                  !.pc = IF rows = <<>> THEN "m_poll" ELSE "m_fetch"])
    /\ UNCHANGED <<giveaways, entries, users, guild_settings, refused, loops,
                   finalized, late, channels, messages, announced,
                   views, now, crashes>>

\* lines 202-210: the active rows are read; those whose end time has come
\* are the ones the loop body acts on
MonPoll ==
    /\ task[Monitor].kind = "monitor" /\ task[Monitor].pc = "m_poll"
    /\ LET due == SelectSeq(ActiveRows,
                            LAMBDA i : now >= giveaways[i].end_time)
           rows == [k \in 1..Len(due) |->
                       [id |-> due[k],
                        channel_id |-> giveaways[due[k]].channel_id,
                        message_id |-> giveaways[due[k]].message_id]]
       IN Step(Monitor, [task[Monitor] EXCEPT !.rows = rows,
                  !.pc = IF rows = <<>> THEN "m_poll" ELSE "m_fetch"])
    /\ UNCHANGED <<giveaways, entries, users, guild_settings, refused, loops,
                   finalized, late, channels, messages, announced,
                   views, now, crashes>>

\* lines 211-225: the message of the next due row is fetched; without it the
\* finalizer is entered with an empty participant list
MonFetch ==
    /\ task[Monitor].kind = "monitor" /\ task[Monitor].pc = "m_fetch"
    /\ LET row == Head(task[Monitor].rows)
           message == FetchMessage(row.channel_id, row.message_id)
       IN Step(Monitor, [task[Monitor] EXCEPT
                  !.rows = Tail(task[Monitor].rows), !.gid = row.id,
                  !.msg = message, !.override = (message = 0),
                  !.pc = "f_read"])
    /\ UNCHANGED <<giveaways, entries, users, guild_settings, refused, loops,
                   finalized, late, channels, messages, announced,
                   views, now, crashes>>

\* ---------------------------------------------------- _ensure_db_and_restore
\* lines 108-148: CREATE TABLE IF NOT EXISTS leaves existing rows alone
RestoreSchema ==
    /\ task[Restorer].kind = "restore" /\ task[Restorer].pc = "r_schema"
    /\ Step(Restorer, [task[Restorer] EXCEPT !.pc = "r_select"])
    /\ UNCHANGED <<giveaways, entries, users, guild_settings, refused, loops,
                   finalized, late, channels, messages, announced,
                   views, now, crashes>>

\* lines 155-157: the active rows are read
RestoreSelect ==
    /\ task[Restorer].kind = "restore" /\ task[Restorer].pc = "r_select"
    /\ LET rows == [k \in 1..Len(ActiveRows) |->
                       [id |-> ActiveRows[k],
                        channel_id |-> giveaways[ActiveRows[k]].channel_id,
                        message_id |-> giveaways[ActiveRows[k]].message_id,
                        min_messages |-> giveaways[ActiveRows[k]].min_messages,
                        min_level |-> giveaways[ActiveRows[k]].min_level]]
       IN Step(Restorer, [task[Restorer] EXCEPT !.rows = rows, !.pc = "r_row"])
    /\ UNCHANGED <<giveaways, entries, users, guild_settings, refused, loops,
                   finalized, late, channels, messages, announced,
                   views, now, crashes>>

\* the scan without lines 178-186: no view is registered
RestoreRowSkips ==
    /\ task[Restorer].kind = "restore" /\ task[Restorer].pc = "r_row"
    /\ task[Restorer].rows # <<>>
    /\ Step(Restorer, [task[Restorer] EXCEPT !.rows = Tail(@)])
    /\ UNCHANGED <<giveaways, entries, users, guild_settings, refused, loops,
                   finalized, late,
                   channels, messages, announced, views, now, crashes>>

\* the scan with a return in place of the continue of line 166: a channel
\* that does not resolve ends the restore before line 189
RestoreRowStops ==
    /\ task[Restorer].kind = "restore" /\ task[Restorer].pc = "r_row"
    /\ task[Restorer].rows # <<>>
    /\ LET row == Head(task[Restorer].rows)
           r == task[Restorer]
       IN IF row.channel_id \notin channels
          THEN /\ Step(Restorer, [r EXCEPT !.rows = <<>>, !.pc = "stopped"])
               /\ UNCHANGED views
          ELSE IF FetchMessage(row.channel_id, row.message_id) = 0
          THEN /\ Step(Restorer, [r EXCEPT !.gid = row.id, !.pc = "r_mark"])
               /\ UNCHANGED views
          ELSE /\ views' = views \cup {[gid |-> row.id, msg |-> row.message_id,
                                        mm |-> row.min_messages,
                                        ml |-> row.min_level]}
               /\ Step(Restorer, [r EXCEPT !.rows = Tail(r.rows)])
    /\ UNCHANGED <<giveaways, entries, users, guild_settings, refused, loops,
                   finalized, late, channels, messages, announced,
                   now, crashes>>

\* lines 161-186: one row of the scan.  A channel that does not resolve is
\* skipped; a message that cannot be fetched sends the row to RestoreMark;
\* otherwise the view is registered again for the message.
RestoreRow ==
    /\ task[Restorer].kind = "restore" /\ task[Restorer].pc = "r_row"
    /\ task[Restorer].rows # <<>>
    /\ LET row == Head(task[Restorer].rows)
           r == task[Restorer]
       IN IF row.channel_id \notin channels
          THEN /\ Step(Restorer, [r EXCEPT !.rows = Tail(r.rows)])
               /\ UNCHANGED views
          ELSE IF FetchMessage(row.channel_id, row.message_id) = 0
          THEN /\ Step(Restorer, [r EXCEPT !.gid = row.id, !.pc = "r_mark"])
               /\ UNCHANGED views
          ELSE /\ views' = views \cup {[gid |-> row.id, msg |-> row.message_id,
                                        mm |-> row.min_messages,
                                        ml |-> row.min_level]}
               /\ Step(Restorer, [r EXCEPT !.rows = Tail(r.rows)])
    /\ UNCHANGED <<giveaways, entries, users, guild_settings, refused, loops,
                   finalized, late, channels, messages, announced,
                   now, crashes>>

\* lines 178-186 when add_view with message_id raises: the restored view is
\* added without a message
RestoreRowUnbound ==
    /\ task[Restorer].kind = "restore" /\ task[Restorer].pc = "r_row"
    /\ task[Restorer].rows # <<>>
    /\ LET row == Head(task[Restorer].rows)
           r == task[Restorer]
       IN /\ row.channel_id \in channels
          /\ FetchMessage(row.channel_id, row.message_id) # 0
          /\ views' = {v \in views : v.msg # 0}
                       \cup {[gid |-> row.id, msg |-> 0,
                              mm |-> row.min_messages,
                              ml |-> row.min_level]}
          /\ Step(Restorer, [r EXCEPT !.rows = Tail(r.rows)])
    /\ UNCHANGED <<giveaways, entries, users, guild_settings, refused, loops,
                   finalized, late, channels, messages, announced,
                   now, crashes>>

\* lines 172-176: the giveaway whose message is gone is marked inactive
RestoreMark ==
    /\ task[Restorer].kind = "restore" /\ task[Restorer].pc = "r_mark"
    /\ giveaways' = SetInactive(giveaways, task[Restorer].gid)
    /\ Step(Restorer, [task[Restorer] EXCEPT
               !.rows = Tail(task[Restorer].rows), !.gid = 0, !.pc = "r_row"])
    /\ UNCHANGED <<entries, users, guild_settings, refused, loops,
                   finalized, late, channels, messages,
                   announced, views, now, crashes>>

\* lines 188-190: the scan is over and the background loop is created
RestoreFinish ==
    /\ task[Restorer].kind = "restore" /\ task[Restorer].pc = "r_row"
    /\ task[Restorer].rows = <<>>
    /\ task' = [task EXCEPT
           ![Restorer] = [@ EXCEPT !.pc = "done"],
           ![Monitor] = [IdleTask EXCEPT !.kind = "monitor", !.pc = "m_poll"]]
    /\ loops' = loops + 1
    /\ reply' = NoReply
    /\ UNCHANGED <<giveaways, entries, users, guild_settings, refused,
                   finalized, late, channels, messages, announced,
                   views, now, crashes>>

\* -------------------------------------------------------------- environment
\* the clock advances
Tick ==
    /\ \E d \in TickSteps : now + d <= MaxNow /\ now' = now + d
    /\ reply' = NoReply
    /\ UNCHANGED <<giveaways, entries, users, guild_settings, refused, loops,
                   finalized, late, channels, messages, announced,
                   views, task, crashes>>

\* int(math.sqrt(n))
Isqrt(n) == CHOOSE r \in 0..n : r * r <= n /\ (r + 1) * (r + 1) > n

\* database.update_user with the default xp_gain of 10, so that xp is ten
\* times the message count: the row is inserted if missing, messages grows
\* by one and level becomes int(sqrt(xp // 10)) + 1, in one commit
UpdateUser(u) ==
    /\ users[u].messages < MaxMessages
    /\ users' = [users EXCEPT ![u] =
           [exists |-> TRUE, messages |-> @.messages + 1,
            level |-> Isqrt(@.messages + 1) + 1]]
    /\ reply' = NoReply
    /\ UNCHANGED <<giveaways, entries, guild_settings, refused, loops,
                   finalized, late, channels, messages, announced,
                   views, task, now, crashes>>

\* a channel is deleted, with the messages in it
DeleteChannel(c) ==
    /\ c \in channels
    /\ channels' = channels \ {c}
    /\ messages' = [m \in {x \in DOMAIN messages : giveaways[x].channel_id # c}
                       |-> messages[m]]
    /\ reply' = NoReply
    /\ UNCHANGED <<giveaways, entries, users, guild_settings, refused, loops,
                   finalized, late, announced,
                   views, task, now, crashes>>

\* a public giveaway message is deleted
DeleteMessage(m) ==
    /\ m \in DOMAIN messages
    /\ messages' = [x \in DOMAIN messages \ {m} |-> messages[x]]
    /\ reply' = NoReply
    /\ UNCHANGED <<giveaways, entries, users, guild_settings, refused, loops,
                   finalized, late, channels,
                   announced, views, task, now, crashes>>

\* the process dies and is started again: every task and every registered
\* view is gone, uncommitted writes are rolled back, __init__ runs
Crash ==
    /\ crashes < MaxCrashes
    /\ crashes' = crashes + 1
    /\ task' = FreshTasks
    /\ views' = {}
    /\ loops' = 0
    /\ reply' = NoReply
    /\ UNCHANGED <<giveaways, entries, users, guild_settings, refused,
                   finalized, late, channels, messages, announced, now>>

\* the extension is loaded: setup has added a GiveawayCog to the bot
Loaded == task[Restorer].kind = "restore"

\* cog_unload with lines 654-655 left out: the loop is not cancelled
UnloadKeepsLoop ==
    /\ Loaded
    /\ task' = [task EXCEPT ![Restorer] = IdleTask]
    /\ reply' = NoReply
    /\ UNCHANGED <<giveaways, entries, users, guild_settings, refused, loops,
                   finalized, late, channels, messages, announced,
                   views, now, crashes>>

\* lines 651-660: the extension is unloaded; cog_unload cancels the loop, if
\* the restore has created it, and the restore task, which end at the await
\* they are suspended in.  Handlers already dispatched and the views
\* registered with the bot stay.
Unload ==
    /\ Loaded
    /\ task' = [task EXCEPT ![Restorer] = IdleTask, ![Monitor] = IdleTask]
    /\ loops' = IF task[Monitor].kind = "monitor" THEN loops - 1 ELSE loops
    /\ reply' = NoReply
    /\ UNCHANGED <<giveaways, entries, users, guild_settings, refused,
                   finalized, late, channels, messages, announced,
                   views, now, crashes>>

\* lines 662-664 and 98-101: setup adds a new GiveawayCog, whose __init__
\* creates the restore task
Load ==
    /\ ~Loaded
    /\ task' = [task EXCEPT ![Restorer] = RestoreTask]
    /\ reply' = NoReply
    /\ UNCHANGED <<giveaways, entries, users, guild_settings, refused, loops,
                   finalized, late, channels, messages, announced,
                   views, now, crashes>>

\* ------------------------------------------------------------ specification
\* the path of _finalize_giveaway for an empty participant list
FinalizeEmpty(p) ==
    \/ FinRead(p) \/ FinParts(p) \/ FinMessage(p)
    \/ FinEmptyEdit(p) \/ FinEmptyCommit(p)

\* the path that draws winners
FinalizeDraw(p) ==
    \/ FinEligible(p) \/ FinAll(p) \/ FinCommit(p)
    \/ FinEdit(p) \/ FinAnnounce(p) \/ FinPurge(p)

Finalize(p) == FinalizeEmpty(p) \/ FinalizeDraw(p)

MonitorNext == MonPoll \/ MonFetch

RestoreNext == RestoreSchema \/ RestoreSelect \/ RestoreRow \/ RestoreMark
               \/ RestoreFinish

\* /giveaway_start, at most cap rows, arguments drawn from the given sets
StartCmd(t, cap, durations, winner_counts) ==
    \/ \E g \in Guilds, a \in Actors, d \in durations, w \in winner_counts,
          mm \in MinMessages, ml \in MinLevels :
              StartCall(t, cap, g, a, d, w, mm, ml)
    \/ StartCheck(t) \/ StartInsert(t) \/ StartSend(t) \/ StartStore(t)

JoinCmd(t) ==
    \/ \E v \in views, u \in Users : JoinCall(t, v, u)
    \/ JoinActive(t) \/ JoinStats(t) \/ JoinInsert(t)

EndCmd(t) ==
    \/ \E g \in Guilds, a \in Actors : EndCall(t, g, a)
    \/ EndFind(t) \/ EndFetch(t)

Deletions ==
    \/ \E c \in Guilds : DeleteChannel(c)
    \/ \E m \in 1..MaxRows : DeleteMessage(m)

\* The bot with MaxTasks concurrent handlers for start, the join button and
\* end, its restore task and background loop, the clock, and crashes.
Next ==
    \/ \E t \in Handlers : StartCmd(t, MaxEvents, Durations, WinnerCounts)
    \/ \E t \in Handlers : JoinCmd(t)
    \/ \E t \in Handlers : EndCmd(t)
    \/ \E p \in Finalizers : Finalize(p)
    \/ MonitorNext
    \/ RestoreNext
    \/ Tick
    \/ Crash

Spec == Init /\ [][Next]_vars

\* Racing start commands: MaxTasks handlers for start and end and up to
\* MaxRows rows.  Nobody joins, so a finalization only takes the path of an
\* empty participant list.
StartNext ==
    \/ \E t \in Handlers : StartCmd(t, MaxRows, Durations, WinnerCounts)
    \/ \E t \in Handlers : EndCmd(t)
    \/ \E p \in Finalizers : FinalizeEmpty(p)
    \/ MonitorNext
    \/ RestoreNext
    \/ Tick
    \/ Crash

StartSpec == Init /\ [][StartNext]_vars

\* One handler at a time, in a guild whose channel and whose giveaway post
\* may be deleted.
FirstHandler == {t \in Handlers : \A u \in Handlers : t <= u}

EnvNext ==
    \/ \E t \in FirstHandler : StartCmd(t, MaxEvents, Durations, WinnerCounts)
    \/ \E t \in FirstHandler : JoinCmd(t)
    \/ \E t \in FirstHandler : EndCmd(t)
    \/ \E p \in {Monitor} \cup FirstHandler : Finalize(p)
    \/ MonitorNext
    \/ RestoreNext
    \/ Tick
    \/ Deletions
    \/ Crash

EnvSpec == Init /\ [][EnvNext]_vars

\* The same, with the restore task scheduled by the event loop whenever it
\* is ready to run.
BootSpec ==
    /\ Init /\ [][EnvNext]_vars
    /\ WF_vars(RestoreNext)

\* One handler at a time and any integer accepted by the winners option;
\* the restore task and the background loop are scheduled by the event loop
\* whenever they are ready to run.
LoopNext ==
    \/ \E t \in FirstHandler : StartCmd(t, MaxEvents, SignedDurations,
                                        SignedWinnerCounts)
    \/ \E t \in FirstHandler : JoinCmd(t)
    \/ \E t \in FirstHandler : EndCmd(t)
    \/ \E p \in {Monitor} \cup FirstHandler : Finalize(p)
    \/ MonitorNext
    \/ RestoreNext
    \/ Tick
    \/ Crash

LoopSpec ==
    /\ Init /\ [][LoopNext]_vars
    /\ WF_vars(RestoreNext)
    /\ WF_vars(MonitorNext \/ Finalize(Monitor))

\* /giveaway_start with thresholds drawn from the given sets as well
StartWith(t, cap, durations, winner_counts, min_messages, min_levels) ==
    \/ \E g \in Guilds, a \in Actors, d \in durations, w \in winner_counts,
          mm \in min_messages, ml \in min_levels :
              StartCall(t, cap, g, a, d, w, mm, ml)
    \/ StartCheck(t) \/ StartInsert(t) \/ StartSend(t) \/ StartStore(t)

\* the users table before any member has sent a message
NoUsers == [u \in Users |-> [exists |-> FALSE, messages |-> 0, level |-> 0]]

JoinInit ==
    /\ giveaways = <<>>
    /\ entries = <<>>
    /\ users = NoUsers
    /\ guild_settings = [g \in Guilds |-> 0]
    /\ channels = Guilds
    /\ messages = <<>>
    /\ announced = [g \in 1..MaxRows |-> 0]
    /\ views = {}
    /\ task = FreshTasks
    /\ reply = NoReply
    /\ now = 0
    /\ crashes = 0
    /\ refused = {}
    /\ finalized = {}
    /\ late = {}
    /\ loops = 0

\* Members whose stats grow while a giveaway with thresholds is open: one
\* handler at a time for start and the join button, restarts, no ending.
JoinNext ==
    \/ \E t \in FirstHandler :
          StartWith(t, MaxEvents, Durations, WinnerCounts, GateMessages,
                    GateLevels)
    \/ \E t \in FirstHandler : JoinCmd(t)
    \/ \E u \in Users : UpdateUser(u)
    \/ RestoreNext
    \/ Crash

JoinSpec == JoinInit /\ [][JoinNext]_vars

RerollCmd(t) ==
    \/ \E gid \in GiveawayIds, g \in Guilds, a \in Actors :
          RerollCall(t, gid, g, a)
    \/ RerollFind(t) \/ RerollParts(t) \/ RerollEligible(t) \/ RerollAll(t)
    \/ RerollCommit(t) \/ RerollAnnounce(t)

\* Draws of one or several winners and rerolls: one handler at a time for
\* start, the join button, end and reroll, next to the background loop.
DrawNext ==
    \/ \E t \in FirstHandler :
          StartWith(t, MaxEvents, Durations, DrawCounts, MinMessages,
                    MinLevels)
    \/ \E t \in FirstHandler : JoinCmd(t)
    \/ \E t \in FirstHandler : EndCmd(t)
    \/ \E t \in FirstHandler : RerollCmd(t)
    \/ \E p \in {Monitor} \cup FirstHandler : Finalize(p)
    \/ MonitorNext
    \/ RestoreNext
    \/ Tick
    \/ Crash

DrawSpec == Init /\ [][DrawNext]_vars

\* Finalizations in which the store or Discord can fail: one handler at a
\* time for start, the join button and end, next to the background loop.
FailNext ==
    \/ \E t \in FirstHandler : StartCmd(t, MaxEvents, Durations, WinnerCounts)
    \/ \E t \in FirstHandler : JoinCmd(t)
    \/ \E t \in FirstHandler : EndCmd(t)
    \/ \E p \in {Monitor} \cup FirstHandler : Finalize(p)
    \/ \E p \in {Monitor} \cup FirstHandler : FinStoreFails(p)
    \/ \E p \in {Monitor} \cup FirstHandler : FinSendFails(p)
    \/ MonitorNext
    \/ RestoreNext
    \/ Tick
    \/ Crash

FailSpec == Init /\ [][FailNext]_vars

\* Members with every combination of permission and roles use the commands
\* while the manager role of the guild is set and changed; nobody joins.
PermNext ==
    \/ \E t \in Handlers, g \in Guilds, a \in AllActors, r \in RoleIds :
          SetManager(t, g, a, r)
    \/ \E t \in Handlers, g \in Guilds, a \in AllActors, d \in Durations,
          w \in WinnerCounts, mm \in MinMessages, ml \in MinLevels :
          StartCall(t, MaxEvents, g, a, d, w, mm, ml)
    \/ \E t \in Handlers :
          StartCheck(t) \/ StartInsert(t) \/ StartSend(t) \/ StartStore(t)
    \/ \E t \in Handlers, g \in Guilds, a \in AllActors : EndCall(t, g, a)
    \/ \E t \in Handlers : EndFind(t) \/ EndFetch(t)
    \/ \E t \in Handlers : FinalizeEmpty(t)

PermSpec == Init /\ [][PermNext]_vars

\* The extension is unloaded and loaded again while giveaways run: the
\* commands are there while it is loaded, one handler at a time; handlers
\* under way and the join button go on without it.
ReloadNext ==
    \/ \E t \in FirstHandler, g \in Guilds, a \in Actors, d \in Durations,
          w \in WinnerCounts, mm \in MinMessages, ml \in MinLevels :
          Loaded /\ StartCall(t, MaxEvents, g, a, d, w, mm, ml)
    \/ \E t \in FirstHandler :
          StartCheck(t) \/ StartInsert(t) \/ StartSend(t) \/ StartStore(t)
    \/ \E t \in FirstHandler : JoinCmd(t)
    \/ \E t \in FirstHandler, g \in Guilds, a \in Actors :
          Loaded /\ EndCall(t, g, a)
    \/ \E t \in FirstHandler : EndFind(t) \/ EndFetch(t)
    \/ \E p \in {Monitor} \cup FirstHandler : Finalize(p)
    \/ MonitorNext
    \/ RestoreNext
    \/ Tick
    \/ Unload
    \/ Load

ReloadSpec == Init /\ [][ReloadNext]_vars

\* Giveaways in NumScopes guilds at once, one handler at a time for start
\* and the join button, restarts; add_view with message_id may raise, and
\* the view is then added without a message.
Scopes == 1..NumScopes

BindInit ==
    /\ giveaways = <<>>
    /\ entries = <<>>
    /\ users = [u \in Users |-> [exists |-> TRUE, messages |-> 10, level |-> 3]]
    /\ guild_settings = [g \in Scopes |-> 0]
    /\ channels = Scopes
    /\ messages = <<>>
    /\ announced = [g \in 1..MaxRows |-> 0]
    /\ views = {}
    /\ task = FreshTasks
    /\ reply = NoReply
    /\ now = 0
    /\ crashes = 0
    /\ refused = {}
    /\ finalized = {}
    /\ late = {}
    /\ loops = 0

BindNext ==
    \/ \E t \in FirstHandler, g \in Scopes, a \in Actors, d \in Durations,
          w \in WinnerCounts, mm \in MinMessages, ml \in MinLevels :
              StartCall(t, MaxRows, g, a, d, w, mm, ml)
    \/ \E t \in FirstHandler :
          \/ StartCheck(t) \/ StartInsert(t) \/ StartSend(t)
          \/ StartStore(t) \/ StartStoreUnbound(t)
    \/ \E t \in FirstHandler : JoinCmd(t)
    \/ \E t \in FirstHandler, m \in 1..MaxRows, u \in Users :
          JoinCallUnbound(t, m, u)
    \/ RestoreNext
    \/ RestoreRowUnbound
    \/ Crash

BindSpec == BindInit /\ [][BindNext]_vars

\* ------------------------------------------------------------------ claims
\* the step is one of task p (a crash replaces every task at once)
StepOf(p) == task'[p] # task[p] /\ crashes' = crashes

\* C1: under any interleaving of start handlers, the background loop and
\* finalizations, every guild has at most one giveaway with active = 1.
C1_SingleActive == \A g \in Guilds : Len(ActiveIn(g)) <= 1

\* C2: however many finalizations of one giveaway run concurrently (a manual
\* end racing the background loop), its winners are announced at most once.
C2_AnnouncedOnce == \A gid \in 1..MaxRows : announced[gid] <= 1

\* the finalization changes the public post, the entries or the announcements
FinalizeEffect(p) ==
    /\ task[p].kind \in {"end", "monitor"}
    /\ StepOf(p)
    /\ (messages' # messages \/ entries' # entries \/ announced' # announced)

\* C3: within one finalization the flip of the active flag comes first: the
\* post is edited, winners are marked and announced and the entries purged
\* only in the transaction that sets active = 0 or after it.
C3_FlipFirst ==
    [][\A p \in Finalizers :
          FinalizeEffect(p) =>
              \/ task[p].flipped
              \/ (giveaways' # giveaways
                  /\ giveaways'[task[p].gid].active = 0)]_vars

\* C4: across crashes and restarts a giveaway is finalized at most once (its
\* winners are announced at most once), and once the restore scan is over
\* every guild has at most one active giveaway.
C4_OnceAcrossRestarts ==
    crashes > 0 =>
        /\ \A gid \in 1..MaxRows : announced[gid] < 2
        /\ task[Restorer].pc = "done" =>
               \A g \in Guilds : Cardinality(Range(ActiveIn(g))) <= 1

\* the channel or the public message of a scanned row does not resolve
Unresolvable(row) ==
    \/ row.channel_id \notin channels
    \/ FetchMessage(row.channel_id, row.message_id) = 0

\* the restore scan is done with the row at the head of its list
RestoreDrops ==
    /\ task[Restorer].kind = "restore"
    /\ task[Restorer].rows # <<>>
    /\ StepOf(Restorer)
    /\ task'[Restorer].rows = Tail(task[Restorer].rows)

\* C5: the restore scan leaves no giveaway active whose channel or public
\* message cannot be resolved: when it is done with such a row, the giveaway
\* is inactive.
C5_RestoreMarksUnresolved ==
    [][(RestoreDrops /\ Unresolvable(Head(task[Restorer].rows)))
          => giveaways'[Head(task[Restorer].rows).id].active = 0]_vars

\* C6: an active giveaway whose end time has come is eventually inactive,
\* whatever arguments start accepted for it, as long as the restore task and
\* the background loop keep running.
C6_DueEndsInactive ==
    \A gid \in 1..MaxRows :
        (IsActive(gid) /\ giveaways[gid].end_time <= now) ~> ~IsActive(gid)

\* C7: a start whose check finds an active giveaway in the guild answers
\* AlreadyActive and is over, with no row inserted and no message posted;
\* a start whose check finds none does not answer AlreadyActive.
C7_StartRejected ==
    [][\A t \in Handlers :
          (task[t].kind = "start" /\ task[t].pc = "s_check" /\ StepOf(t)) =>
              IF ActiveIn(task[t].guild) # <<>>
              THEN /\ reply'.kind = "start" /\ reply'.res = "AlreadyActive"
                   /\ task'[t].kind = "idle"
                   /\ giveaways' = giveaways
                   /\ messages' = messages
                   /\ views' = views
              ELSE reply'.res # "AlreadyActive"]_vars

\* a second start in a guild was refused while the first giveaway is the
\* only row and still active
C7_Witness ==
    /\ reply.kind = "start" /\ reply.res = "AlreadyActive"
    /\ Len(giveaways) = 1
    /\ IsActive(1)
    /\ DOMAIN messages = {1}

\* C8: no two rows of giveaway_entries have the same giveaway and user,
\* also when several clicks of one user on one giveaway interleave.
C8_UniqueEntries ==
    \A i, j \in 1..Len(entries) :
        (entries[i].giveaway_id = entries[j].giveaway_id
         /\ entries[i].user_id = entries[j].user_id) => i = j

\* one click of a user has inserted the row and answered while another click
\* of the same user on the same giveaway is about to insert
C8_Witness ==
    /\ reply.kind = "join" /\ reply.res = "Joined"
    /\ HasEntry(entries, reply.gid, reply.user)
    /\ \E t \in Handlers :
          /\ task[t].kind = "join" /\ task[t].pc = "j_insert"
          /\ task[t].gid = reply.gid /\ task[t].user = reply.user

\* C9: a second join of a user who already has an entry leaves the entries
\* as they are and answers AlreadyJoined, not the answer of a fresh join.
C9_AlreadyJoined ==
    [][\A t \in Handlers :
          (/\ task[t].kind = "join" /\ task[t].pc = "j_insert"
           /\ StepOf(t)
           /\ HasEntry(entries, task[t].gid, task[t].user)) =>
              /\ entries' = entries
              /\ reply'.res = "AlreadyJoined"]_vars

\* C10: a join on a giveaway that has no row or is inactive is refused at
\* once: it answers Inactive, the handler is over without having read the
\* user's stats, and no entry is added.
C10_InactiveRejected ==
    [][\A t \in Handlers :
          (/\ task[t].kind = "join" /\ task[t].pc = "j_active"
           /\ StepOf(t)
           /\ ~IsActive(task[t].gid)) =>
              /\ reply'.kind = "join" /\ reply'.res = "Inactive"
              /\ task'[t].kind = "idle"
              /\ entries' = entries]_vars

\* a click on the button of a finalized giveaway was refused
C10_Witness ==
    /\ reply.kind = "join" /\ reply.res = "Inactive"
    /\ HasRow(reply.gid) /\ ~IsActive(reply.gid)
    /\ ~HasEntry(entries, reply.gid, reply.user)

\* the stats row of the user meets the thresholds of the giveaway row
Eligible(gid, uid) ==
    /\ users[uid].exists
    /\ users[uid].messages >= giveaways[gid].min_messages
    /\ users[uid].level >= giveaways[gid].min_level

\* the answer that names the first gate the user does not pass
UnmetGate(gid, uid) ==
    IF ~users[uid].exists THEN "NoStats"
    ELSE IF users[uid].messages < giveaways[gid].min_messages
    THEN "NeedMessages"
    ELSE "NeedLevel"

\* C11: a join that reaches the gates of an existing giveaway goes on to
\* record its entry exactly when the user has a stats row with messages >=
\* min_messages and level >= min_level of that giveaway; otherwise it is over
\* with the answer that names the first unmet gate (no stats row, else
\* messages, else level) and no entry is added.  Entries are added by no
\* other step of a join.
C11_GatesDecide ==
    [][\A t \in Handlers :
          (task[t].kind = "join" /\ StepOf(t)) =>
              LET gid == task[t].gid
                  uid == task[t].user
              IN CASE task[t].pc = "j_stats" ->
                        /\ entries' = entries
                        /\ IF Eligible(gid, uid)
                           THEN task'[t].pc = "j_insert"
                           ELSE /\ task'[t].kind = "idle"
                                /\ reply'.kind = "join"
                                /\ reply'.res = UnmetGate(gid, uid)
                   [] task[t].pc = "j_insert" ->
                        /\ Eligible(gid, uid)
                        /\ HasEntry(entries', gid, uid)
                        /\ reply'.res = "Joined"
                   [] OTHER -> entries' = entries]_vars

\* a user with enough messages was refused at the level gate and has no
\* entry, while the giveaway has the entry of another user
C11_Witness ==
    /\ reply.kind = "join" /\ reply.res = "NeedLevel"
    /\ users[reply.user].messages >= giveaways[reply.gid].min_messages
    /\ ~HasEntry(entries, reply.gid, reply.user)
    /\ \E u \in Users : HasEntry(entries, reply.gid, u)

\* C12: the gates read the current stats at every join: a user who was
\* refused before and whose stats now meet the thresholds passes the gates,
\* the next step records the entry, and no step of the join changes the
\* giveaway row.
C12_ReEvaluated ==
    [][\A t \in Handlers :
          (/\ task[t].kind = "join" /\ StepOf(t)
           /\ <<task[t].gid, task[t].user>> \in refused
           /\ Eligible(task[t].gid, task[t].user)) =>
              /\ giveaways' = giveaways
              /\ task[t].pc = "j_stats" => task'[t].pc = "j_insert"
              /\ task[t].pc = "j_insert" =>
                     /\ HasEntry(entries', task[t].gid, task[t].user)
                     /\ reply'.res = "Joined"]_vars

\* a user refused earlier has joined the same, still active giveaway
C12_Witness ==
    /\ reply.kind = "join" /\ reply.res = "Joined"
    /\ <<reply.gid, reply.user>> \in refused
    /\ IsActive(reply.gid)
    /\ HasEntry(entries, reply.gid, reply.user)

\* a draw of finalize or reroll reads its candidates / commits its winners
ReadsCandidates(p) ==
    StepOf(p) /\ task[p].pc \in {"f_elig", "f_all", "rr_elig", "rr_all"}

Draws(p) ==
    /\ StepOf(p) /\ task[p].pc \in {"f_commit", "rr_commit"}
    /\ task'[p].pc \in {"f_edit", "f_announce", "rr_announce"}

Distinct(seq) == \A i, j \in 1..Len(seq) : seq[i] = seq[j] => i = j

\* C13: the candidates a draw (finalize or reroll) reads are distinct users
\* with an entry of the giveaway, and the winners it commits are pairwise
\* distinct candidates, at most winner_count and at most as many as there
\* are candidates.
C13_WinnerBound ==
    [][\A p \in Finalizers :
          /\ ReadsCandidates(p) =>
                /\ Distinct(task'[p].elig)
                /\ \A u \in Range(task'[p].elig) :
                      HasEntry(entries, task[p].gid, u)
                /\ Len(task'[p].elig) <= Len(EntryUsers(task[p].gid))
          /\ Draws(p) =>
                /\ Distinct(task'[p].winners)
                /\ Range(task'[p].winners) \subseteq Range(task[p].elig)
                /\ Len(task'[p].winners) <= giveaways[task[p].gid].winner_count
                /\ Len(task'[p].winners) <= Len(task[p].elig)]_vars

\* a draw for two winners has committed two of them
C13_Witness ==
    \E p \in Finalizers :
        /\ task[p].pc \in {"f_edit", "f_announce", "rr_announce"}
        /\ Len(task[p].winners) = 2
        /\ giveaways[task[p].gid].winner_count = 2

\* C14: a draw takes min(winner_count, number of entries) winners: when it
\* goes on to sample from the candidates it has read, these are enough for
\* that number, previously-won entries filling the slots the never-won ones
\* leave open.
C14_WinnerNumber ==
    [][\A p \in Finalizers :
          (ReadsCandidates(p) /\ task'[p].pc \in {"f_commit", "rr_commit"}) =>
              Min(giveaways[task[p].gid].winner_count, Len(task'[p].elig))
                  = Min(giveaways[task[p].gid].winner_count,
                        Len(EntryUsers(task[p].gid)))]_vars

\* the users whose entry of the giveaway has won = 0
NeverWon(gid) ==
    {entries[i].user_id : i \in {k \in 1..Len(entries) :
        entries[k].giveaway_id = gid /\ entries[k].won = 0}}

\* C15: a draw prefers entries that have not won: the candidates read first
\* are exactly the entries with won = 0, previously-won entries become
\* candidates only when that read found none, and the winners are taken from
\* the candidates.
C15_PrefersFresh ==
    [][\A p \in Finalizers :
          /\ (StepOf(p) /\ task[p].pc \in {"f_elig", "rr_elig"}) =>
                /\ Range(task'[p].elig) = NeverWon(task[p].gid)
                /\ (task'[p].pc \in {"f_all", "rr_all"})
                      <=> (NeverWon(task[p].gid) = {})
          /\ (StepOf(p) /\ task[p].pc \in {"f_all", "rr_all"}) =>
                task[p].elig = <<>>
          /\ Draws(p) =>
                Range(task'[p].winners) \subseteq Range(task[p].elig)]_vars

\* a reroll is about to draw from the entries that have not won, while the
\* giveaway also has an entry that has
C15_Witness ==
    \E t \in Handlers :
        /\ task[t].kind = "reroll" /\ task[t].pc = "rr_commit"
        /\ task[t].elig # <<>>
        /\ \E i \in 1..Len(entries) :
              /\ entries[i].giveaway_id = task[t].gid
              /\ entries[i].won = 1
              /\ entries[i].user_id \notin Range(task[t].elig)

\* the <<giveaway, user>> pairs that have an entry
EntryKeys(tbl) == {<<tbl[i].giveaway_id, tbl[i].user_id>> : i \in 1..Len(tbl)}

\* C17: no step sets the active flag of a giveaway from 0 back to 1 (and no
\* row is removed); a reroll leaves the giveaways table alone and adds no
\* entry and removes none.
C17_NeverReactivated ==
    [][/\ \A gid \in 1..Len(giveaways) :
             giveaways[gid].active = 0 =>
                 /\ gid <= Len(giveaways')
                 /\ giveaways'[gid].active = 0
       /\ \A t \in Handlers :
             (task[t].kind = "reroll" /\ StepOf(t)) =>
                 /\ giveaways' = giveaways
                 /\ EntryKeys(entries') = EntryKeys(entries)]_vars

\* a reroll has drawn and announced winners of a giveaway that is inactive
C17_Witness ==
    /\ reply.kind = "reroll" /\ reply.res = "Rerolled"
    /\ HasRow(reply.gid) /\ ~IsActive(reply.gid)
    /\ \E i \in 1..Len(entries) :
          entries[i].giveaway_id = reply.gid /\ entries[i].won = 1

\* the entries of giveaway gid in the entries table tbl
EntriesOf(tbl, gid) == SelectSeq(tbl, LAMBDA r : r.giveaway_id = gid)

\* the steps of the no-participants path of a finalization
EmptyPath == {"f_empty_edit", "f_empty_commit"}

\* C16: a finalization that finds no entry of the giveaway (or is handed an
\* empty participant list) takes the no-participants path: the post, if it
\* is there, is put in the "No participants joined" state, then the giveaway
\* is set inactive with no entry left; no winner is marked or announced.
C16_NoParticipants ==
    [][\A p \in Finalizers :
          (StepOf(p) /\ task[p].kind \in {"end", "monitor"}) =>
              LET gid == task[p].gid
              IN CASE task[p].pc = "f_read" /\ IsActive(gid)
                           /\ task[p].override ->
                        task'[p].pc \in EmptyPath \cup {"f_msg"}
                   [] task[p].pc = "f_parts" /\ EntryUsers(gid) = <<>> ->
                        task'[p].pc \in EmptyPath \cup {"f_msg"}
                   [] task[p].pc = "f_msg" /\ task[p].parts = <<>> ->
                        task'[p].pc \in EmptyPath
                   [] task[p].pc = "f_empty_edit" ->
                        /\ task[p].msg \in DOMAIN messages =>
                               messages'[task[p].msg] = "empty"
                        /\ task'[p].pc = "f_empty_commit"
                        /\ announced' = announced
                        /\ entries' = entries
                   [] task[p].pc = "f_empty_commit" ->
                        /\ giveaways'[gid].active = 0
                        /\ EntriesOf(entries', gid) = <<>>
                        /\ announced' = announced
                        /\ messages' = messages
                        /\ task'[p].pc \notin
                               {"f_elig", "f_all", "f_commit", "f_edit",
                                "f_announce", "f_purge"}
                   [] OTHER -> TRUE]_vars

\* /giveaway_end of a giveaway nobody joined has answered: the giveaway is
\* inactive, its post says that nobody joined, nothing was announced
C16_Witness ==
    /\ reply.kind = "end" /\ reply.res = "Ended"
    /\ ~IsActive(reply.gid)
    /\ reply.gid \in DOMAIN messages /\ messages[reply.gid] = "empty"
    /\ announced[reply.gid] = 0
    /\ EntryUsers(reply.gid) = <<>>

\* the view the restore scan registers for a row of giveaways
ViewOf(gid) ==
    [gid |-> gid, msg |-> giveaways[gid].message_id,
     mm |-> giveaways[gid].min_messages, ml |-> giveaways[gid].min_level]

\* channel and public message of the giveaway resolve
Resolves(gid) ==
    FetchMessage(giveaways[gid].channel_id, giveaways[gid].message_id) # 0

\* C18: the restore scan registers, for every row it meets whose channel and
\* message resolve, a view bound to that giveaway id and message; once the
\* scan is over, every active giveaway whose channel and message resolve has
\* its view registered, so its join button is served.
C18_ViewsRestored ==
    /\ [](task[Restorer].pc = "done" =>
             \A gid \in 1..Len(giveaways) :
                 (IsActive(gid) /\ Resolves(gid)) => ViewOf(gid) \in views)
    /\ [][(/\ StepOf(Restorer) /\ task[Restorer].pc = "r_row"
           /\ task[Restorer].rows # <<>>
           /\ ~Unresolvable(Head(task[Restorer].rows)))
              => \E v \in views' :
                    /\ v.gid = Head(task[Restorer].rows).id
                    /\ v.msg = Head(task[Restorer].rows).message_id
                    /\ v.mm = giveaways[v.gid].min_messages
                    /\ v.ml = giveaways[v.gid].min_level]_vars

\* after a restart, with the restore over, a user has joined an active
\* giveaway through the view registered for it
C18_Witness ==
    /\ crashes > 0
    /\ task[Restorer].pc = "done"
    /\ reply.kind = "join" /\ reply.res = "Joined"
    /\ IsActive(reply.gid)
    /\ ViewOf(reply.gid) \in views
    /\ HasEntry(entries, reply.gid, reply.user)

\* the finalization task p was in is over after the step
FinalizeOver(p) ==
    /\ StepOf(p)
    /\ task[p].kind \in {"end", "monitor"}
    /\ task[p].pc \in PreFlip \cup {"f_empty_edit", "f_edit", "f_announce",
                                    "f_purge"}
    /\ task'[p].pc \in {"idle", "m_poll", "m_fetch"}

\* C19: a finalization that has flipped the flag runs to completion: when
\* it is over, also after a failed edit of the post or a failed winners
\* announcement, the giveaway is inactive and none of its entries is left.
C19_RunsToCompletion ==
    [][\A p \in Finalizers :
          (FinalizeOver(p) /\ task[p].flipped) =>
              /\ giveaways'[task[p].gid].active = 0
              /\ EntriesOf(entries', task[p].gid) = <<>>]_vars

\* C20: a finalization that is over while the giveaway is still active (it
\* was aborted before its flip was persisted) has had no partial effect: no
\* entry of the giveaway has won = 1, none was deleted by the step, and the
\* public post is not in a terminal state.
C20_AbortsClean ==
    [][\A p \in Finalizers :
          (FinalizeOver(p) /\ task[p].gid \in 1..Len(giveaways')
             /\ giveaways'[task[p].gid].active = 1) =>
              LET gid == task[p].gid
                  mid == giveaways[gid].message_id
              IN /\ giveaways' = giveaways
                 /\ entries' = entries
                 /\ FreshUsers(gid) = EntryUsers(gid)
                 /\ mid \in DOMAIN messages => messages'[mid] = "open"]_vars

\* C21: once a finalization of a giveaway has run to completion, its row is
\* still there with active = 0 and no entry of it is stored, whatever joins
\* were in flight during the finalization.
C21_PurgedForGood ==
    \A gid \in finalized :
        /\ HasRow(gid) /\ ~IsActive(gid)
        /\ EntriesOf(entries, gid) = <<>>

\* the step of handler t leaves the store and the channel as they are and
\* ends the handler with the answer res
Rejects(t, res) ==
    /\ task'[t].kind = "idle"
    /\ reply'.kind = task[t].kind /\ reply'.res = res
    /\ giveaways' = giveaways /\ entries' = entries
    /\ messages' = messages /\ announced' = announced

\* C22: /giveaway_reroll of a giveaway that has no row or is still active is
\* rejected, and so is the reroll of an inactive giveaway without stored
\* entries; the rejecting step changes no table, announces nothing and ends
\* the command.
C22_RerollRejected ==
    [][\A t \in Handlers :
          (StepOf(t) /\ task[t].kind = "reroll") =>
              /\ (task[t].pc = "rr_find" /\ ~HasRow(task[t].gid))
                     => Rejects(t, "NotEnded")
              /\ (task[t].pc = "rr_find" /\ IsActive(task[t].gid))
                     => Rejects(t, "NotEnded")
              /\ (task[t].pc = "rr_parts"
                     /\ EntriesOf(entries, task[t].gid) = <<>>)
                     => Rejects(t, "NoParticipants")]_vars

\* a reroll of a finalized, purged giveaway was answered "No stored
\* participants to reroll."
C22_Witness ==
    /\ reply.kind = "reroll" /\ reply.res = "NoParticipants"
    /\ reply.gid \in finalized
    /\ EntriesOf(entries, reply.gid) = <<>>

\* the step ends handler t with "You are not allowed ..." and changes no
\* table, no post and no announcement
Denied(t, kind) ==
    /\ task'[t] = IdleTask
    /\ reply'.kind = kind /\ reply'.res = "Unauthorized"
    /\ giveaways' = giveaways /\ entries' = entries
    /\ messages' = messages /\ announced' = announced /\ views' = views

\* C23: /giveaway_start, /giveaway_end and /giveaway_reroll issued by an
\* actor who is not a manager of the guild are answered Unauthorized at
\* once; giveaways and entries stay as they are and nothing is posted.
C23_Unauthorized ==
    [][\A t \in Handlers, g \in Guilds, a \in Actors :
          ~IsManager(a, g) =>
              /\ \A d \in Durations, w \in DrawCounts, mm \in MinMessages,
                    ml \in MinLevels :
                     StartCall(t, MaxEvents, g, a, d, w, mm, ml)
                         => Denied(t, "start")
              /\ EndCall(t, g, a) => Denied(t, "end")
              /\ \A gid \in GiveawayIds :
                     RerollCall(t, gid, g, a) => Denied(t, "reroll")]_vars

\* /giveaway_end by a member who is no manager was refused while the
\* giveaway of the guild is running with an entry
C23_Witness ==
    /\ reply.kind = "end" /\ reply.res = "Unauthorized"
    /\ \E gid \in 1..Len(giveaways) :
          IsActive(gid) /\ EntriesOf(entries, gid) # <<>>

\* C24: every stored giveaway ends after it starts: a duration that does
\* not come to a positive number of seconds is refused by /giveaway_start
\* and no row is written for it.
C24_PositiveDuration ==
    \A i \in 1..Len(giveaways) :
        giveaways[i].end_time > giveaways[i].start_time

\* C25: the background loop enters the finalizer as /giveaway_end does for
\* the same giveaway, entries and reachability: with the message that
\* fetch_message gives for the stored row and, whenever entries are stored,
\* with no participant list of its own, so that both have the same outcomes.
C25_SameAsManualEnd ==
    [][(StepOf(Monitor) /\ task[Monitor].pc = "m_fetch") =>
          LET row == Head(task[Monitor].rows)
          IN /\ task'[Monitor].pc = "f_read"
             /\ task'[Monitor].msg =
                    FetchMessage(row.channel_id, row.message_id)
             /\ EntriesOf(entries, row.id) # <<>>
                    => ~task'[Monitor].override]_vars

\* the step of finalizer p settles on an empty participant list
NoParticipants(p) ==
    /\ StepOf(p)
    /\ task[p].kind \in {"end", "monitor"}
    /\ task[p].pc \in {"f_read", "f_parts"}
    /\ \/ task'[p].pc \in EmptyPath
       \/ task'[p].pc = "f_msg" /\ task'[p].parts = <<>>

\* C26: a finalization goes the no-participants way only if the giveaway
\* has no entry at that moment; with an entry stored it goes on to the draw,
\* whether or not the channel and the post of the giveaway still resolve.
C26_EmptyOnlyIfNoEntries ==
    [][\A p \in Finalizers :
          NoParticipants(p) => EntriesOf(entries, task[p].gid) = <<>>]_vars

\* the users with an entry of giveaway gid in the entries table tbl
UsersOf(tbl, gid) == {r.user_id : r \in Range(EntriesOf(tbl, gid))}

\* the <<giveaway, user>> pairs whose entry is marked won in tbl
WonKeys(tbl) ==
    {<<tbl[i].giveaway_id, tbl[i].user_id>> :
         i \in {j \in 1..Len(tbl) : tbl[j].won = 1}}

\* C27: the winners of a finalization come from the entries it read before
\* its flip: the candidates it reads are stored entries of the giveaway at
\* the time of the read, the winners committed with the flip are among
\* these candidates, and after its flip the finalization neither changes
\* its winners nor marks another entry, so an entry inserted after the flip
\* is never among them.
C27_WinnersFromSnapshot ==
    [][\A p \in Finalizers :
          (StepOf(p) /\ task[p].kind \in {"end", "monitor"}) =>
              /\ task[p].pc \in {"f_elig", "f_all"} =>
                     Range(task'[p].elig) \subseteq
                         UsersOf(entries, task[p].gid)
              /\ task[p].pc = "f_commit" =>
                     /\ Range(task'[p].winners) \subseteq Range(task[p].elig)
                     /\ WonKeys(entries') \subseteq WonKeys(entries) \cup
                            {<<task[p].gid, u>> : u \in Range(task[p].elig)}
              /\ task[p].flipped =>
                     /\ Range(task'[p].winners) \subseteq
                            Range(task[p].winners)
                     /\ WonKeys(entries') \subseteq WonKeys(entries)]_vars

\* an entry was inserted after the flip of a finalization that has not
\* purged yet; its user is not among the winners of that finalization
C27_Witness ==
    \E p \in Finalizers, u \in Users :
        /\ task[p].kind \in {"end", "monitor"} /\ task[p].flipped
        /\ task[p].winners # <<>>
        /\ <<task[p].gid, u>> \in late
        /\ HasEntry(entries, task[p].gid, u)
        /\ u \notin Range(task[p].winners)

\* the background loop of this process has been created
MonitorStarted == task[Monitor].kind = "monitor"

C29_OnlyDue ==
    [][StepOf(Monitor) =>
          /\ task[Monitor].pc = "m_fetch" =>
                 giveaways[Head(task[Monitor].rows).id].end_time <= now
          /\ \A gid \in 1..Len(giveaways) :
                 (giveaways[gid].active = 1 /\ giveaways'[gid].active = 0) =>
                     giveaways[gid].end_time <= now]_vars

\* the loop has ended a due giveaway by a draw
C29_Witness ==
    /\ task[Monitor].kind = "monitor" /\ task[Monitor].flipped
    /\ ~IsActive(task[Monitor].gid)
    /\ giveaways[task[Monitor].gid].end_time <= now

\* C30: /giveaway_end answers "Giveaway ended." only if the giveaway it
\* targeted is inactive; a finalization aborted by a store failure is
\* reported as a failure.
C30_EndedMeansInactive ==
    (reply.kind = "end" /\ reply.res = "Ended") => ~IsActive(reply.gid)

\* C31: every stored giveaway has winner_count >= 1, min_messages >= 0 and
\* min_level >= 0, whatever integers /giveaway_start is called with.
C31_ValidOptions ==
    \A i \in 1..Len(giveaways) :
        /\ giveaways[i].winner_count >= 1
        /\ giveaways[i].min_messages >= 0
        /\ giveaways[i].min_level >= 0

\* seconds per unit letter, and the place of the letter in the form NdNhNm
UnitSeconds(c) == CASE c = "d" -> 86400 [] c = "h" -> 3600 [] OTHER -> 60

UnitRank(c) == CASE c = "d" -> 1 [] c = "h" -> 2 [] OTHER -> 3

\* a string read as NdNhNm: numbers followed by d, h and m in this order,
\* each part optional and at least one present; val is the sum of the parts
FormSeconds(duration) ==
    LET Scan[i \in 0..Len(duration)] ==
            IF i = 0
            THEN [ok |-> TRUE, val |-> 0, num |-> 0, digits |-> FALSE,
                  rank |-> 0]
            ELSE LET q == Scan[i - 1]
                     c == duration[i]
                 IN IF ~q.ok THEN q
                    ELSE IF c \in Digits
                    THEN [q EXCEPT !.num = q.num * 10 + DigitVal(c),
                                   !.digits = TRUE]
                    ELSE IF c \in {"d", "h", "m"} /\ q.digits
                            /\ UnitRank(c) > q.rank
                    THEN [ok |-> TRUE, val |-> q.val + q.num * UnitSeconds(c),
                          num |-> 0, digits |-> FALSE, rank |-> UnitRank(c)]
                    ELSE [q EXCEPT !.ok = FALSE]
        end == Scan[Len(duration)]
    IN [ok |-> end.ok /\ ~end.digits /\ end.rank > 0, val |-> end.val]

\* C32: /giveaway_start takes every duration of the form NdNhNm, combined
\* forms such as "1h1m" included, and goes on with days*86400 + hours*3600
\* + minutes*60 seconds.
C32_CombinedDurations ==
    [][\A t \in Handlers, g \in Guilds, a \in Actors, d \in Durations,
          w \in WinnerCounts, mm \in MinMessages, ml \in MinLevels :
          (IsManager(a, g) /\ FormSeconds(d).ok
              /\ StartCall(t, MaxEvents, g, a, d, w, mm, ml)) =>
                 /\ task'[t].pc = "s_check"
                 /\ task'[t].secs = FormSeconds(d).val]_vars

\* the actor has the administrator capability in the guild, or holds the
\* role stored as the manager role of the guild, or holds a role whose name
\* has a manager-like keyword in it
CanManage(guild, actor) ==
    \/ actor.manage_guild
    \/ \E r \in actor.roles : r = guild_settings[guild]
    \/ \E r \in actor.roles : RoleNames[r] \in KeywordNames

C34_SingleMonitor ==
    /\ loops <= 1
    /\ loops = (IF task[Monitor].kind = "monitor" THEN 1 ELSE 0)

\* the extension is unloaded while a giveaway with a registered view is
\* due: the restore task and the loop of the cog are gone
C34_Witness ==
    /\ ~Loaded
    /\ loops = 0
    /\ task[Monitor].kind = "idle"
    /\ \E gid \in 1..Len(giveaways) :
          /\ IsActive(gid)
          /\ ViewOf(gid) \in views
          /\ giveaways[gid].end_time <= now

\* C35: in every committed state an entry with won = 1 belongs to a
\* giveaway with active = 0: a finalization commits its winner marks
\* together with the flip, and a reroll marks entries of inactive giveaways
\* only.
C35_WonImpliesInactive ==
    \A i \in 1..Len(entries) :
        entries[i].won = 1 =>
            /\ HasRow(entries[i].giveaway_id)
            /\ giveaways[entries[i].giveaway_id].active = 0

\* a reroll has marked its winner among the entries that a finalization
\* has not purged yet
C35_Witness ==
    /\ reply.kind = "reroll" /\ reply.res = "Rerolled"
    /\ \E i \in 1..Len(entries) :
          entries[i].giveaway_id = reply.gid /\ entries[i].won = 1
    /\ \E p \in Finalizers :
          task[p].kind \in {"end", "monitor"} /\ task[p].flipped
              /\ task[p].gid = reply.gid

\* C36: when /giveaway_start answers its caller with a failure (the INSERT
\* failed or the giveaway post could not be sent), the call leaves no row
\* with active = 1 behind: the row it inserted, if any, is not active.
C36_FailedStartLeavesNoRow ==
    [][\A t \in Handlers :
          ( /\ StepOf(t)
            /\ task[t].kind = "start" /\ task'[t].kind = "idle"
            /\ reply'.kind = "start" /\ reply'.res = "PostFailed" )
          => \/ task[t].gid = 0
             \/ giveaways'[task[t].gid].active = 0]_vars

\* C37: a reroll that answers "Reroll complete; winners announced." has
\* drawn at least one winner, whatever a finalization of the same giveaway
\* purges in the meantime: the announced list is never empty.
C37_RerollHasWinner ==
    [][\A t \in Handlers :
          ( /\ StepOf(t)
            /\ task[t].kind = "reroll" /\ task[t].pc = "rr_announce"
            /\ reply'.kind = "reroll" /\ reply'.res = "Rerolled" )
          => task[t].winners # <<>>]_vars

====
